---- MODULE Spec2Model ----
(***************************************************************************)
(* SCIPACK: the SISD pseudo random number generators of                    *)
(* src/src/random/generator_sisd.c (PCG64i and xorshift64, their seeding   *)
(* and the rand/bias/unid sampling methods).                               *)
(*                                                                         *)
(* The timer of src/src/timing/timer.c (the lazily estimated TSC frequency *)
(* and the formatting of a cycle count as elapsed time) and cycles_stats   *)
(* of src/benchmark/benchmarks.c.                                          *)
(*                                                                         *)
(* A uint64_t is a tuple of 8 bytes, least significant byte first, so      *)
(* that every operation is computed modulo 2^64 exactly as the C code      *)
(* computes it.                                                            *)
(***************************************************************************)
EXTENDS Integers, Sequences, FiniteSets, TLC

VARIABLES gen, hist, rdlog, tsc_hz, tcalls, stats, thr

vars == <<gen, hist, rdlog, tsc_hz, tcalls, stats, thr>>

(***************************************************************************)
(* Bounds of the model.                                                    *)
(***************************************************************************)
\* calls made through one generator handle
MaxCalls == 2
\* largest element count n passed to a method
MaxCount == 2
\* raw draws followed in one rejection loop before the call is recorded as
\* still spinning
MaxSpin == 6
\* consecutive underflows the hardware source may produce for one word
MaxUnderflow == 11
\* timer calls made by the process
MaxTimerCalls == 3
\* longest sample set drawn freely from the menu values
MaxSamples == 4
\* threads inside TimerGetHz at the same time
MaxThreads == 2

(***************************************************************************)
(* uint64_t arithmetic                                                     *)
(***************************************************************************)
Byte == 0..255

Pow2(k) == 2^k

\* the word with the given bytes, most significant first (reads like 0x...)
W(b7, b6, b5, b4, b3, b2, b1, b0) == <<b0, b1, b2, b3, b4, b5, b6, b7>>

Zero == W(0, 0, 0, 0, 0, 0, 0, 0)
One == W(0, 0, 0, 0, 0, 0, 0, 1)
\* UINT64_MAX, ~((uint64_t) 0)
Ones == W(255, 255, 255, 255, 255, 255, 255, 255)

\* (uint64_t) n for 0 <= n < 2^24
FromNat(n) == W(0, 0, 0, 0, 0, (n \div 65536) % 256, (n \div 256) % 256, n % 256)

RECURSIVE Xor8(_, _)
Xor8(a, b) ==
    IF a = 0 THEN b
    ELSE IF b = 0 THEN a
    ELSE ((a + b) % 2) + 2 * Xor8(a \div 2, b \div 2)

RECURSIVE And8(_, _)
And8(a, b) ==
    IF a = 0 \/ b = 0 THEN 0
    ELSE ((a % 2) * (b % 2)) + 2 * And8(a \div 2, b \div 2)

Or8(a, b) == a + b - And8(a, b)

\* a ^ b
Xor(a, b) ==
    <<Xor8(a[1], b[1]), Xor8(a[2], b[2]), Xor8(a[3], b[3]), Xor8(a[4], b[4]),
      Xor8(a[5], b[5]), Xor8(a[6], b[6]), Xor8(a[7], b[7]), Xor8(a[8], b[8])>>

\* a & b
And(a, b) ==
    <<And8(a[1], b[1]), And8(a[2], b[2]), And8(a[3], b[3]), And8(a[4], b[4]),
      And8(a[5], b[5]), And8(a[6], b[6]), And8(a[7], b[7]), And8(a[8], b[8])>>

\* a | b
Or(a, b) ==
    <<Or8(a[1], b[1]), Or8(a[2], b[2]), Or8(a[3], b[3]), Or8(a[4], b[4]),
      Or8(a[5], b[5]), Or8(a[6], b[6]), Or8(a[7], b[7]), Or8(a[8], b[8])>>

ByteAt(a, i) == IF i >= 1 /\ i <= 8 THEN a[i] ELSE 0

ShrByte(a, i, q, r) ==
    (ByteAt(a, i + q) \div Pow2(r)) + (ByteAt(a, i + q + 1) % Pow2(r)) * Pow2(8 - r)

\* a >> k, 0 <= k <= 63
Shr(a, k) ==
    LET q == k \div 8
        r == k % 8
    IN  <<ShrByte(a, 1, q, r), ShrByte(a, 2, q, r), ShrByte(a, 3, q, r),
          ShrByte(a, 4, q, r), ShrByte(a, 5, q, r), ShrByte(a, 6, q, r),
          ShrByte(a, 7, q, r), ShrByte(a, 8, q, r)>>

ShlByte(a, i, q, r) ==
    ((ByteAt(a, i - q) * Pow2(r)) % 256) + (ByteAt(a, i - q - 1) \div Pow2(8 - r))

\* a << k modulo 2^64, 0 <= k <= 63
Shl(a, k) ==
    LET q == k \div 8
        r == k % 8
    IN  <<ShlByte(a, 1, q, r), ShlByte(a, 2, q, r), ShlByte(a, 3, q, r),
          ShlByte(a, 4, q, r), ShlByte(a, 5, q, r), ShlByte(a, 6, q, r),
          ShlByte(a, 7, q, r), ShlByte(a, 8, q, r)>>

RECURSIVE AddFrom(_, _, _, _)
AddFrom(a, b, i, carry) ==
    IF i > 8 THEN <<>>
    ELSE LET s == a[i] + b[i] + carry
         IN  <<s % 256>> \o AddFrom(a, b, i + 1, s \div 256)

\* a + b modulo 2^64
Add(a, b) == AddFrom(a, b, 1, 0)

\* ~a
Not(a) == Xor(a, Ones)

\* a - b modulo 2^64
Sub(a, b) == Add(Add(a, Not(b)), One)

RECURSIVE ColSum(_, _, _, _)
ColSum(a, b, k, i) ==
    IF i > k THEN 0 ELSE a[i] * b[k + 1 - i] + ColSum(a, b, k, i + 1)

RECURSIVE MulFrom(_, _, _, _)
MulFrom(a, b, k, carry) ==
    IF k > 8 THEN <<>>
    ELSE LET s == carry + ColSum(a, b, k, 1)
         IN  <<s % 256>> \o MulFrom(a, b, k + 1, s \div 256)

\* a * b modulo 2^64
Mul(a, b) == MulFrom(a, b, 1, 0)

RECURSIVE GtFrom(_, _, _)
GtFrom(a, b, i) ==
    IF i < 1 THEN FALSE
    ELSE IF a[i] # b[i] THEN a[i] > b[i]
    ELSE GtFrom(a, b, i - 1)

\* a > b, unsigned
Gt(a, b) == GtFrom(a, b, 8)

Leq(a, b) == ~Gt(a, b)

RECURSIVE Clz8(_)
Clz8(x) == IF x >= 128 THEN 0 ELSE IF x = 0 THEN 8 ELSE 1 + Clz8(2 * x)

RECURSIVE ClzFrom(_, _)
ClzFrom(a, i) ==
    IF i < 1 THEN 0
    ELSE IF a[i] # 0 THEN Clz8(a[i])
    ELSE 8 + ClzFrom(a, i - 1)

RECURSIVE Ctz8(_)
Ctz8(x) == IF x = 0 THEN 8 ELSE IF x % 2 = 1 THEN 0 ELSE 1 + Ctz8(x \div 2)

RECURSIVE CtzFrom(_, _)
CtzFrom(a, i) ==
    IF i > 8 THEN 0
    ELSE IF a[i] # 0 THEN Ctz8(a[i])
    ELSE 8 + CtzFrom(a, i + 1)

\* bit k of a, 0 <= k <= 63
Bit(a, k) == (a[(k \div 8) + 1] \div Pow2(k % 8)) % 2

\* the value of a word below 2^24
ToNat(a) == a[1] + 256 * a[2] + 65536 * a[3]

(***************************************************************************)
(* Library constants                                                       *)
(***************************************************************************)
SPK_ERROR_SUCCESS == 0
SPK_ERROR_STDMALLOC == 1
SPK_ERROR_RDRAND == 4
SPK_ERROR_ARGBOUNDS == 5
SPK_ERROR_UNDEFINED == 999

\* 0x140, 0x240, 0x340
SPK_GENERATOR_PCG64i == 320
SPK_GENERATOR_XSH64 == 576
SPK_GENERATOR_LCG128 == 832

\* the limit passed to RdRandRetry by NewPCG64i and NewXSH64
RetryLimit == 10

(***************************************************************************)
(* Seeding                                                                 *)
(***************************************************************************)
\* 0xbf58476d1ce4e5b9
HashMul1 == W(191, 88, 71, 109, 28, 228, 229, 185)
\* 0x94d049bb133111eb
HashMul2 == W(148, 208, 73, 187, 19, 49, 17, 235)

\* Hash overwrites *value and returns the same word
Hash(value) ==
    LET i0 == value
        i1 == Xor(i0, Shr(i0, 30))
        i2 == Mul(i1, HashMul1)
        i3 == Xor(i2, Shr(i2, 27))
        i4 == Mul(i3, HashMul2)
        i5 == Xor(i4, Shr(i4, 31))
    IN  i5

\* One word of the hardware source: hw.fails consecutive underflows, then
\* hw.value.  A failed _rdrand64_step stores 0 in *x and returns 0.
RECURSIVE RdRandLoop(_, _, _, _)
RdRandLoop(x, limit, i, hw) ==
    IF i < limit
    THEN IF i >= hw.fails
         THEN [err |-> SPK_ERROR_SUCCESS, x |-> hw.value, attempts |-> i + 1]
         ELSE RdRandLoop(Zero, limit, i + 1, hw)
    ELSE [err |-> SPK_ERROR_RDRAND, x |-> x, attempts |-> i]

\* variant: the loop runs while i <= limit
RdRandRetryExtra(x, limit, hw) == RdRandLoop(x, limit + 1, 0, hw)

RdRandRetry(x, limit, hw) == RdRandLoop(x, limit, 0, hw)

\* variant: the seed is never looked at
SeedGivenIgnored(seed) == FALSE

\* if (seed != 0): the caller asks for deterministic seeding
SeedGiven(seed) == seed # Zero

\* variant: the increment is left as seeded
ForceOddOmitted(increment) == increment

\* pcg->increment |= 1
ForceOdd(increment) == Or(increment, One)

\* the caller's handle before spk_GeneratorNew: an uninitialized pointer
NoGenerator ==
    [ptr |-> "uninit", algo |-> "none", state |-> Zero, increment |-> Zero,
     methods |-> "none", err |-> SPK_ERROR_UNDEFINED, id |-> 0, seed |-> Zero,
     oom |-> FALSE, deleted |-> FALSE]

\* variant: the result of malloc is kept in a local
NullHandleUnwritten(rng) == rng

\* *rng = malloc(...) when malloc returns NULL
NullHandle(rng) == [rng EXCEPT !.ptr = "null"]

\* env: what the environment supplies to one constructor call
\*   env.malloc   whether malloc succeeds
\*   env.garbage  the indeterminate contents of the fresh allocation
\*   env.hw       the hardware source's behaviour for the words requested
NewPCG64i(rng, seed, env) ==
    IF ~env.malloc
    THEN [rng |-> NullHandle(rng), err |-> SPK_ERROR_STDMALLOC, rd |-> <<>>]
    ELSE
    LET obj == [rng EXCEPT !.ptr = "obj", !.algo = "PCG64i",
                           !.state = env.garbage[1], !.increment = env.garbage[2],
                           !.methods = "unhooked"]
    IN  IF SeedGiven(seed)
        THEN LET s1 == Hash(seed)
                 s2 == Hash(s1)
             IN  [rng |-> [obj EXCEPT !.state = s1, !.increment = ForceOdd(s2),
                                      !.methods = "PCG64i"],
                  err |-> SPK_ERROR_SUCCESS, rd |-> <<>>]
        ELSE LET r1 == RdRandRetry(obj.state, RetryLimit, env.hw[1])
                 r2 == RdRandRetry(obj.increment, RetryLimit, env.hw[2])
             IN  IF r1.err # 0
                 THEN [rng |-> [obj EXCEPT !.state = r1.x], err |-> r1.err,
                       rd |-> <<r1>>]
                 ELSE IF r2.err # 0
                 THEN [rng |-> [obj EXCEPT !.state = r1.x, !.increment = r2.x],
                       err |-> r2.err, rd |-> <<r1, r2>>]
                 ELSE [rng |-> [obj EXCEPT !.state = r1.x,
                                           !.increment = ForceOdd(r2.x),
                                           !.methods = "PCG64i"],
                       err |-> SPK_ERROR_SUCCESS, rd |-> <<r1, r2>>]

NewXSH64(rng, seed, env) ==
    IF ~env.malloc
    THEN [rng |-> NullHandle(rng), err |-> SPK_ERROR_STDMALLOC, rd |-> <<>>]
    ELSE
    LET obj == [rng EXCEPT !.ptr = "obj", !.algo = "XSH64",
                           !.state = env.garbage[1], !.methods = "unhooked"]
    IN  IF SeedGiven(seed)
        THEN [rng |-> [obj EXCEPT !.state = Hash(seed), !.methods = "XSH64"],
              err |-> SPK_ERROR_SUCCESS, rd |-> <<>>]
        ELSE LET r1 == RdRandRetry(obj.state, RetryLimit, env.hw[1])
             IN  IF r1.err # 0
                 THEN [rng |-> [obj EXCEPT !.state = r1.x], err |-> r1.err,
                       rd |-> <<r1>>]
                 ELSE [rng |-> [obj EXCEPT !.state = r1.x, !.methods = "XSH64"],
                       err |-> SPK_ERROR_SUCCESS, rd |-> <<r1>>]

\* free(rng): the object is released; rng is a copy of the caller's handle,
\* which keeps the address ("freed": it dangles).  free(NULL) does nothing.
spk_GeneratorDelete(rng) ==
    [rng EXCEPT !.ptr = IF @ = "obj" THEN "freed" ELSE @]

\* variant: the object is allocated before the identifier is examined
spk_GeneratorNewEager(rng, identifier, seed, env) ==
    IF identifier = SPK_GENERATOR_PCG64i THEN NewPCG64i(rng, seed, env)
    ELSE IF identifier = SPK_GENERATOR_XSH64 THEN NewXSH64(rng, seed, env)
    ELSE [rng |-> [rng EXCEPT !.ptr = IF env.malloc THEN "obj" ELSE "null"],
          err |-> SPK_ERROR_ARGBOUNDS, rd |-> <<>>]

spk_GeneratorNew(rng, identifier, seed, env) ==
    IF identifier = SPK_GENERATOR_PCG64i THEN NewPCG64i(rng, seed, env)
    ELSE IF identifier = SPK_GENERATOR_XSH64 THEN NewXSH64(rng, seed, env)
    ELSE [rng |-> rng, err |-> SPK_ERROR_ARGBOUNDS, rd |-> <<>>]

(***************************************************************************)
(* Raw output                                                              *)
(***************************************************************************)
\* 0xAEF17502108EF2D9
PcgPermMul == W(174, 241, 117, 2, 16, 142, 242, 217)
\* 0x5851F42D4C957F2D
PcgLcgMul == W(88, 81, 244, 45, 76, 149, 127, 45)

\* variant: the state is advanced before it is permuted
PCG64iStepPost(pcg) ==
    LET new == Add(Mul(pcg.state, PcgLcgMul), pcg.increment)
        p3 == Shr(new, ToNat(Add(Shr(new, 59), FromNat(5))))
        p5 == Mul(Xor(p3, new), PcgPermMul)
    IN  [st |-> [state |-> new, increment |-> pcg.increment],
         out |-> Xor(p5, Shr(p5, 43))]

\* one iteration of the loop of NextPCG64i on the words of struct pcg64i
PCG64iStep(pcg) ==
    LET p1 == Shr(pcg.state, 59)
        p2 == Add(p1, FromNat(5))
        p3 == Shr(pcg.state, ToNat(p2))
        p4 == Xor(p3, pcg.state)
        p5 == Mul(p4, PcgPermMul)
        p6 == Xor(p5, Shr(p5, 43))
    IN  [st |-> [state |-> Add(Mul(pcg.state, PcgLcgMul), pcg.increment),
                 increment |-> pcg.increment],
         out |-> p6]

\* variant: the word emitted is the state the iteration started from
XSH64StepOld(xsh) ==
    LET x1 == Xor(xsh.state, Shl(xsh.state, 13))
        x2 == Xor(x1, Shr(x1, 7))
        x3 == Xor(x2, Shl(x2, 17))
    IN  [st |-> [state |-> x3, increment |-> xsh.increment], out |-> xsh.state]

\* variant: the second step is x &= x >> 7
XSH64StepMasked(xsh) ==
    LET x1 == Xor(xsh.state, Shl(xsh.state, 13))
        x2 == And(x1, Shr(x1, 7))
        x3 == Xor(x2, Shl(x2, 17))
    IN  [st |-> [state |-> x3, increment |-> xsh.increment], out |-> x3]

\* one iteration of the loop of NextXSH64 on the word of struct xsh64
XSH64Step(xsh) ==
    LET x1 == Xor(xsh.state, Shl(xsh.state, 13))
        x2 == Xor(x1, Shr(x1, 7))
        x3 == Xor(x2, Shl(x2, 17))
    IN  [st |-> [state |-> x3, increment |-> xsh.increment], out |-> x3]

\* random_next_pcg64_insecure of the earlier interface (random_sisd.c): one
\* word per call, the state advanced before the saved word x is permuted
random_next_pcg64_insecure(pcg64i) ==
    LET x == pcg64i.state
        fx == Mul(Xor(Shr(x, ToNat(Add(Shr(x, 59), FromNat(5)))), x), PcgPermMul)
    IN  [st |-> [state |-> Add(Mul(pcg64i.state, PcgLcgMul), pcg64i.increment),
                 increment |-> pcg64i.increment],
         out |-> Xor(Shr(fx, 43), fx)]

\* the for loop of a next method: dest[i] is the output of iteration i
RECURSIVE NextLoop(_, _, _, _, _)
\* variant: the output word is accumulated across iterations
NextStoreCarry(algo, s, dest, i, n) ==
    NextLoop(algo, s.st,
             Append(dest, IF i = 0 THEN s.out ELSE Xor(s.out, dest[i])), i + 1, n)

\* (the guard has TLC evaluate this iteration before the next one starts)
NextStore(algo, s, dest, i, n) ==
    CASE s = s -> NextLoop(algo, s.st, Append(dest, s.out), i + 1, n)

NextLoop(algo, st, dest, i, n) ==
    IF i < n
    THEN NextStore(algo, IF algo = "PCG64i" THEN PCG64iStep(st) ELSE XSH64Step(st),
                   dest, i, n)
    ELSE [st |-> st, dest |-> dest, err |-> SPK_ERROR_SUCCESS]

NextPCG64i(pcg, n) == NextLoop("PCG64i", pcg, <<>>, 0, n)

NextXSH64(xsh, n) == NextLoop("XSH64", xsh, <<>>, 0, n)

\* the next function the methods of one generator call
RawNext(algo, st, n) ==
    IF algo = "PCG64i" THEN NextPCG64i(st, n) ELSE NextXSH64(st, n)

(***************************************************************************)
(* Bounded integers by rejection sampling                                  *)
(* RandPCG64i and RandXSH64 are the same code around their own next.       *)
(***************************************************************************)
\* variant: the mask always keeps every bit
RandMaskWide(ceil, undef) == IF ceil = Zero THEN undef ELSE Ones

\* variant: the mask is one bit short
RandMaskShort(ceil, undef) ==
    IF ceil = Zero THEN undef ELSE Shr(Ones, ClzFrom(ceil, 8) + 1)

\* ~((uint64_t) 0) >> __builtin_clzll(ceil).  __builtin_clzll(0) is undefined,
\* so for ceil = 0 the mask is whatever the build produces: undef.
RandMask(ceil, undef) ==
    IF ceil = Zero THEN undef ELSE Shr(Ones, ClzFrom(ceil, 8))

\* the do-while loop: draw, mask, repeat while output > ceil.  After MaxSpin
\* rejected draws the loop is left running (accepted = FALSE).
RECURSIVE RandDraw(_, _, _, _, _, _)
\* variant: the masked word is accepted without the test
RandWhileNoReject(algo, st, output, drawn, mask, ceil, spin) ==
    [st |-> st, output |-> output, drawn |-> drawn, accepted |-> TRUE]

\* variant: while (output >= ceil)
RandWhileExclusive(algo, st, output, drawn, mask, ceil, spin) ==
    IF ~Gt(ceil, output)
    THEN IF spin + 1 >= MaxSpin
         THEN [st |-> st, output |-> output, drawn |-> drawn, accepted |-> FALSE]
         ELSE RandDraw(algo, st, mask, ceil, drawn, spin + 1)
    ELSE [st |-> st, output |-> output, drawn |-> drawn, accepted |-> TRUE]

RandWhile(algo, st, output, drawn, mask, ceil, spin) ==
    IF Gt(output, ceil)
    THEN IF spin + 1 >= MaxSpin
         THEN [st |-> st, output |-> output, drawn |-> drawn, accepted |-> FALSE]
         ELSE RandDraw(algo, st, mask, ceil, drawn, spin + 1)
    ELSE [st |-> st, output |-> output, drawn |-> drawn, accepted |-> TRUE]

RandMasked(algo, s, mask, ceil, drawn, spin) ==
    RandWhile(algo, s.st, And(s.dest[1], mask), Append(drawn, s.dest[1]),
              mask, ceil, spin)

RandDraw(algo, st, mask, ceil, drawn, spin) ==
    RandMasked(algo, RawNext(algo, st, 1), mask, ceil, drawn, spin)

\* the for loop: dest[i] = output + min
RECURSIVE RandLoop(_, _, _, _, _, _, _, _, _)
RandStore(algo, d, dest, raws, i, n, min, mask, ceil) ==
    IF d.accepted
    THEN RandLoop(algo, d.st, Append(dest, Add(d.output, min)),
                  Append(raws, d.drawn), i + 1, n, min, mask, ceil)
    ELSE [st |-> d.st, dest |-> dest, raws |-> Append(raws, d.drawn),
          returned |-> FALSE, err |-> SPK_ERROR_UNDEFINED]

RandLoop(algo, st, dest, raws, i, n, min, mask, ceil) ==
    IF i < n
    THEN RandStore(algo, RandDraw(algo, st, mask, ceil, <<>>, 0),
                   dest, raws, i, n, min, mask, ceil)
    ELSE [st |-> st, dest |-> dest, raws |-> raws,
          returned |-> TRUE, err |-> SPK_ERROR_SUCCESS]

RandCeil(algo, rng, n, min, ceil, undef) ==
    RandLoop(algo, rng, <<>>, <<>>, 0, n, min, RandMask(ceil, undef), ceil)

RandPCG64i(rng, n, min, max, undef) ==
    RandCeil("PCG64i", rng, n, min, Sub(max, min), undef)

RandXSH64(rng, n, min, max, undef) ==
    RandCeil("XSH64", rng, n, min, Sub(max, min), undef)

(***************************************************************************)
(* Biased bits                                                             *)
(* BiasPCG64i and BiasXSH64 are the same code around their own next.       *)
(***************************************************************************)
\* A probability is the double p.num / 2^p.scale (exact for the small
\* numerators used).  (uint64_t) ldexp(p, exp) truncates p.num * 2^(exp - scale).
BiasClamp(scaled) == IF scaled = Zero THEN Add(scaled, One) ELSE scaled

BiasBitcode(p, exp) ==
    BiasClamp(IF exp >= p.scale
              THEN Shl(FromNat(p.num), exp - p.scale)
              ELSE Shr(FromNat(p.num), p.scale - exp))

\* the switch on bitcode & (1ULL << (j + offset)): its labels are 0 and 1
BiasSwitch(sw, accumulator, word) ==
    IF sw = Zero THEN And(accumulator, word)
    ELSE IF sw = One THEN Or(accumulator, word)
    ELSE accumulator

\* the inner for loop over j
RECURSIVE BiasCombine(_, _, _, _, _, _)
BiasCombine(bitcode, offset, buffer, accumulator, j, total) ==
    IF j < total
    THEN BiasCombine(bitcode, offset, buffer,
                     BiasSwitch(And(bitcode, Shl(One, j + offset)),
                                accumulator, buffer[j + 1]),
                     j + 1, total)
    ELSE accumulator

\* the outer for loop over i: the accumulator is declared outside it
RECURSIVE BiasLoop(_, _, _, _, _, _, _, _, _, _)
BiasStore(algo, st, buffer, acc, dest, raws, i, n, bitcode, offset, total) ==
    CASE acc = acc ->
        BiasLoop(algo, st, Append(dest, acc), Append(raws, buffer), acc,
                 i + 1, n, bitcode, offset, total)

BiasFill(algo, b, dest, raws, accumulator, i, n, bitcode, offset, total) ==
    CASE b = b ->
        BiasStore(algo, b.st, b.dest,
                  BiasCombine(bitcode, offset, b.dest, accumulator, 0, total),
                  dest, raws, i, n, bitcode, offset, total)

BiasLoop(algo, st, dest, raws, accumulator, i, n, bitcode, offset, total) ==
    IF i < n
    THEN BiasFill(algo, RawNext(algo, st, total), dest, raws, accumulator,
                  i, n, bitcode, offset, total)
    ELSE [st |-> st, dest |-> dest, raws |-> raws,
          returned |-> TRUE, err |-> SPK_ERROR_SUCCESS]

BiasOffset(algo, rng, n, exp, bitcode, offset) ==
    BiasLoop(algo, rng, <<>>, <<>>, Zero, 0, n, bitcode, offset, exp - offset)

BiasCode(algo, rng, n, exp, bitcode) ==
    BiasOffset(algo, rng, n, exp, bitcode, CtzFrom(bitcode, 1))

\* variant: the arguments are tested after the first draw
BiasCheckedLate(algo, rng, n, p, exp) ==
    IF p.num <= 0 \/ p.num >= Pow2(p.scale) \/ exp <= 0 \/ exp >= 65
    THEN [st |-> RawNext(algo, rng, 1).st, dest |-> <<>>, raws |-> <<>>,
          returned |-> TRUE, err |-> SPK_ERROR_ARGBOUNDS]
    ELSE BiasCode(algo, rng, n, exp, BiasBitcode(p, exp))

BiasChecked(algo, rng, n, p, exp) ==
    IF p.num <= 0 \/ p.num >= Pow2(p.scale)
    THEN [st |-> rng, dest |-> <<>>, raws |-> <<>>,
          returned |-> TRUE, err |-> SPK_ERROR_ARGBOUNDS]
    ELSE IF exp <= 0 \/ exp >= 65
    THEN [st |-> rng, dest |-> <<>>, raws |-> <<>>,
          returned |-> TRUE, err |-> SPK_ERROR_ARGBOUNDS]
    ELSE BiasCode(algo, rng, n, exp, BiasBitcode(p, exp))

BiasPCG64i(rng, n, p, exp) == BiasChecked("PCG64i", rng, n, p, exp)

BiasXSH64(rng, n, p, exp) == BiasChecked("XSH64", rng, n, p, exp)

(***************************************************************************)
(* Uniform doubles                                                         *)
(***************************************************************************)
\* w with its low k bits rounded away, ties to even, as the pair <<hi, lo>>
\* standing for hi * 2^64 + lo
RoundUp(q1, k) ==
    IF k = 11 /\ Bit(q1, 53) = 1
    THEN <<1, Zero>>
    ELSE <<0, Shl(q1, k)>>

RoundBits(w, k, low, half, q) ==
    RoundUp(IF low > half \/ (low = half /\ Bit(w, k) = 1) THEN Add(q, One) ELSE q, k)

RoundLen(w, len) ==
    IF len <= 53 THEN <<0, w>>
    ELSE RoundBits(w, len - 53, ToNat(w) % Pow2(len - 53), Pow2(len - 54),
                   Shr(w, len - 53))

\* (double) w: w rounded to 53 significant bits
ToDouble(w) ==
    IF w = Zero THEN <<0, Zero>> ELSE RoundLen(w, 64 - ClzFrom(w, 8))

\* ldexp(x, -64) is exact: the double (x[1] * 2^64 + x[2]) / 2^64, kept as
\* its numerator over 2^64
Ldexp64(x) == x

\* the for loop overwriting each target[i] by its double
RECURSIVE UnidLoop(_, _, _, _)
UnidLoop(target, dest, i, n) ==
    IF i < n
    THEN UnidLoop(target, Append(dest, Ldexp64(ToDouble(target[i + 1]))), i + 1, n)
    ELSE dest

UnidFilled(t, n) ==
    [st |-> t.st, dest |-> UnidLoop(t.dest, <<>>, 0, n), raws |-> <<t.dest>>,
     returned |-> TRUE, err |-> SPK_ERROR_SUCCESS]

UnidPCG64i(rng, n) == UnidFilled(NextPCG64i(rng, n), n)

UnidXSH64(rng, n) == UnidFilled(NextXSH64(rng, n), n)

(***************************************************************************)
(* The timer of src/src/timing/timer.c: the TSC frequency estimate         *)
(***************************************************************************)
\* an unsigned long long below 2^31
U64(n) == W(0, 0, 0, 0, (n \div 16777216) % 256, (n \div 65536) % 256,
            (n \div 256) % 256, n % 256)

INIT_HZ == Zero

MAX_NANOSLEEP_ITER == 100
MAX_TICKS_ITER == 10

\* the comparison handed to qsort
cmp(num1, num2) == IF Gt(num2, num1) THEN -1 ELSE IF num1 = num2 THEN 0 ELSE 1

\* the comparison cycles_stats hands to qsort (src/benchmark/benchmarks.c)
ullcmp(num1, num2) == IF Gt(num2, num1) THEN -1 ELSE IF num1 = num2 THEN 0 ELSE 1

\* a call through the function pointer compar
Compare(compar, a, b) == IF compar = "cmp" THEN cmp(a, b) ELSE ullcmp(a, b)

\* qsort(base, nmemb, size, compar): base in ascending order of compar.
\* The element at place k is the one with fewer than k elements before it
\* and at least k elements not after it.
qsort(base, compar) ==
    [k \in 1..Len(base) |->
        CHOOSE x \in {base[i] : i \in 1..Len(base)} :
            /\ Cardinality({i \in 1..Len(base) : Compare(compar, base[i], x) < 0}) < k
            /\ k <= Cardinality({i \in 1..Len(base) : Compare(compar, base[i], x) <= 0})]

\* A trial is <<spk_tsc_start, spk_tsc_end>>, the two counter readings of
\* TimerStart() and TimerStop().  spk_tsc_end - spk_tsc_start, unsigned.
TimerElapsedCycles(trial) == Sub(trial[2], trial[1])

\* overhead_data[i] = TimerElapsedCycles()
Deltas(trials) == [i \in 1..Len(trials) |-> TimerElapsedCycles(trials[i])]

\* assert(TimerElapsedCycles() > 0) in each pass of a measuring loop
DeltasPositive(trials) ==
    \A i \in 1..Len(trials) : Gt(TimerElapsedCycles(trials[i]), Zero)

\* ticks_data[i] = TimerElapsedCycles() - overhead
RECURSIVE TicksLessOverhead(_, _, _, _)
TicksLessOverhead(trials, overhead, i, ticks_data) ==
    IF i > Len(trials) THEN ticks_data
    ELSE CASE Len(ticks_data) = i - 1 ->
         TicksLessOverhead(trials, overhead, i + 1,
                           Append(ticks_data,
                                  Sub(TimerElapsedCycles(trials[i]), overhead)))

\* tsc_hz = ticks_data[MAX_TICKS_ITER/2] and the assertions on it
SetHzMedian(hz) == [tsc_hz |-> hz, ran |-> TRUE, aborted |-> hz = INIT_HZ]

\* the second measuring loop, one-second sleeps
SetHzTicks(hz, env, overhead) ==
    IF ~DeltasPositive(env.seconds)
    THEN [tsc_hz |-> hz, ran |-> TRUE, aborted |-> TRUE]
    ELSE SetHzMedian(qsort(TicksLessOverhead(env.seconds, overhead, 1, <<>>), "cmp")
                         [(MAX_TICKS_ITER \div 2) + 1])

\* variant: the frequency is estimated on every call
TimerSetHzAlways(hz, env) ==
    IF ~DeltasPositive(env.nanos)
    THEN [tsc_hz |-> hz, ran |-> TRUE, aborted |-> TRUE]
    ELSE SetHzTicks(hz, env,
                    qsort(Deltas(env.nanos), "cmp")[(MAX_NANOSLEEP_ITER \div 2) + 1])

\* env.nanos: the trials around the 100 one-nanosecond sleeps,
\* env.seconds: the trials around the 10 one-second sleeps.
\* A failed assertion ends the process (aborted).
TimerSetHz(hz, env) ==
    IF hz # INIT_HZ
    THEN [tsc_hz |-> hz, ran |-> FALSE, aborted |-> FALSE]
    ELSE IF ~DeltasPositive(env.nanos)
    THEN [tsc_hz |-> hz, ran |-> TRUE, aborted |-> TRUE]
    ELSE SetHzTicks(hz, env,
                    qsort(Deltas(env.nanos), "cmp")[(MAX_NANOSLEEP_ITER \div 2) + 1])

\* TimerGetHz
TimerGetHz(hz, env) == TimerSetHz(hz, env)

\* Two threads of one process inside TimerGetHz.  tsc_hz is a plain static
\* and nothing in timer.c locks it; a thread is at one of: "call" (before
\* the test of tsc_hz), "measure" (in the measuring loops), "store" (before
\* the assignment to tsc_hz), "return" (before return tsc_hz), "done".
Threads == 1..MaxThreads

ThreadStart ==
    [pc |-> "call", passed |-> FALSE, val |-> Zero, wrote |-> FALSE, got |-> Zero]

\* if (tsc_hz != INIT_HZ) return;
SetHzReturnsEarly(hz) == hz # INIT_HZ

\* variant: the cache is tested again before it is written
SetHzStoreOnce(hz, val) ==
    IF hz # INIT_HZ THEN [tsc_hz |-> hz, wrote |-> FALSE]
    ELSE [tsc_hz |-> val, wrote |-> TRUE]

\* tsc_hz = ticks_data[MAX_TICKS_ITER/2], whatever tsc_hz holds by now
SetHzStore(hz, val) == [tsc_hz |-> val, wrote |-> TRUE]


(***************************************************************************)
(* Doubles of the timer: <<m, e>> stands for m * 2^e with the 53-bit       *)
(* significand m in 2^52 .. 2^53 - 1, or <<Zero, 0>> for 0.0.  Every       *)
(* operation rounds to nearest, ties to even, as the hardware does.        *)
(***************************************************************************)
DZero == <<Zero, 0>>

\* the integer w of at most 53 significant bits, times 2^e
DNorm(w, e, len) ==
    IF len <= 53
    THEN <<Shl(w, 53 - len), e - (53 - len)>>
    ELSE <<Shr(w, len - 53), e + (len - 53)>>

DOfRounded(d) ==
    IF d[1] = 1 THEN <<Shl(One, 52), 12>>
    ELSE DNorm(d[2], 0, 64 - ClzFrom(d[2], 8))

\* (double) w
DFromWord(w) == IF w = Zero THEN DZero ELSE DOfRounded(ToDouble(w))

\* the quotient q and remainder rem of the significands, rounded
DRound(q, exact, up, e) ==
    IF exact \/ ~up
    THEN <<q, e>>
    ELSE IF Bit(Add(q, One), 53) = 1
    THEN <<Shr(Add(q, One), 1), e + 1>>
    ELSE <<Add(q, One), e>>

DQuot(qr, mb, e) ==
    DRound(qr[1], qr[2] = Zero,
           Gt(Shl(qr[2], 1), mb) \/ (Shl(qr[2], 1) = mb /\ Bit(qr[1], 0) = 1), e)

\* long division of the significands, one quotient bit per step
RECURSIVE DivLoop(_, _, _, _)
DivLoop(rem, mb, q, bits) ==
    IF bits = 0 THEN <<q, rem>>
    ELSE CASE rem = rem /\ q = q ->
         IF Leq(mb, Shl(rem, 1))
         THEN DivLoop(Sub(Shl(rem, 1), mb), mb, Add(Shl(q, 1), One), bits - 1)
         ELSE DivLoop(Shl(rem, 1), mb, Shl(q, 1), bits - 1)

\* a / b, b not 0.0
DDiv(a, b) ==
    IF a[1] = Zero THEN DZero
    ELSE IF Leq(b[1], a[1])
    THEN DQuot(DivLoop(Sub(a[1], b[1]), b[1], One, 52), b[1], a[2] - b[2] - 52)
    ELSE DQuot(DivLoop(a[1], b[1], Zero, 53), b[1], a[2] - b[2] - 53)

DMulRound(product, e) ==
    DNorm(RoundLen(product, 64 - ClzFrom(product, 8))[2], e,
          64 - ClzFrom(RoundLen(product, 64 - ClzFrom(product, 8))[2], 8))

\* a * 1000.0
DMul1000(a) ==
    IF a[1] = Zero THEN DZero ELSE DMulRound(Mul(a[1], U64(1000)), a[2])

\* variant: a <= 1.0
DLessEq1(a) == a[1] = Zero \/ a[2] <= -53 \/ a = <<Shl(One, 52), -52>>

\* a < 1.0
DLess1(a) == a[1] = Zero \/ a[2] <= -53

(***************************************************************************)
(* TimerElapsedTime                                                        *)
(***************************************************************************)
TIMER_SECONDS == 0
TIMER_MILLISECONDS == 1
TIMER_MICROSECONDS == 2
TIMER_NANOSECONDS == 3

symbol_lookup ==
    [r \in TIMER_SECONDS..TIMER_NANOSECONDS |->
        IF r = TIMER_SECONDS THEN "sec"
        ELSE IF r = TIMER_MILLISECONDS THEN "ms"
        ELSE IF r = TIMER_MICROSECONDS THEN "us"
        ELSE "ns"]

\* while (tr.elapsed < 1.0) { tr.elapsed *= 1000.0; tr.resolution += 1;
\* assert(tr.resolution <= TIMER_NANOSECONDS); }  strcpy(tr.symbol, ...)
RECURSIVE ElapsedLoop(_, _)
ElapsedLoop(elapsed, resolution) ==
    IF ~DLess1(elapsed)
    THEN [elapsed |-> elapsed, resolution |-> resolution,
          symbol |-> symbol_lookup[resolution], aborted |-> FALSE]
    ELSE IF resolution + 1 > TIMER_NANOSECONDS
    THEN [elapsed |-> DMul1000(elapsed), resolution |-> resolution + 1,
          symbol |-> "", aborted |-> TRUE]
    ELSE ElapsedLoop(DMul1000(elapsed), resolution + 1)

\* the timer_result for cycles once TimerSetHz has left hz in tsc_hz
ElapsedOf(cycles, hz) ==
    ElapsedLoop(DDiv(DFromWord(cycles), DFromWord(hz)), TIMER_SECONDS)

NoResult ==
    [elapsed |-> DZero, resolution |-> TIMER_SECONDS, symbol |-> "",
     aborted |-> TRUE]

TimerElapsedTimeAfter(set, cycles) ==
    [set |-> set,
     tr |-> IF set.aborted THEN NoResult ELSE ElapsedOf(cycles, set.tsc_hz)]

TimerElapsedTime(hz, cycles, env) ==
    TimerElapsedTimeAfter(TimerSetHz(hz, env), cycles)

(***************************************************************************)
(* cycles_stats of src/benchmark/benchmarks.c                              *)
(***************************************************************************)
\* (long long) w < 0
Negative(w) == Bit(w, 63) = 1

\* LLONG_MIN as (unsigned long long)
LLongMin == W(128, 0, 0, 0, 0, 0, 0, 0)

\* (long long) a - (long long) b overflows
SubOverflows(a, b) ==
    Negative(a) # Negative(b) /\ Negative(Sub(a, b)) # Negative(a)

\* variant: the difference is stored as it is
DeviationSigned(tmp, undef) == tmp

\* (unsigned long long) (tmp >= 0 ? tmp : -tmp); -LLONG_MIN overflows and
\* leaves undef
Deviation(tmp, undef) ==
    IF ~Negative(tmp) THEN tmp
    ELSE IF tmp = LLongMin THEN undef
    ELSE Sub(Zero, tmp)

\* one pass of the deviation loop; a signed overflow is undefined and
\* leaves undef in the array
AbsDeviation(x, median, undef) ==
    IF SubOverflows(x, median) THEN undef ELSE Deviation(Sub(x, median), undef)

\* the loop reaches a signed overflow
Overflows(datacpy, median) ==
    \E i \in 1..Len(datacpy) :
        SubOverflows(datacpy[i], median) \/ Sub(datacpy[i], median) = LLongMin

\* variant: the lower of the two middle elements
MiddleLower(datacpy, n) == datacpy[((n - 1) \div 2) + 1]

\* datacpy[n/2]
Middle(datacpy, n) == datacpy[(n \div 2) + 1]

StatsMad(median, min, max, deviations, n) ==
    [err |-> FALSE, median |-> median, min |-> min, max |-> max,
     mad |-> Middle(qsort(deviations, "ullcmp"), n)]

StatsSorted(datacpy, n, undef) ==
    StatsMad(Middle(datacpy, n), datacpy[1], datacpy[n],
             [i \in 1..n |-> AbsDeviation(datacpy[i], Middle(datacpy, n), undef)],
             n)

\* the outputs are not written when malloc fails
StatsUnwritten ==
    [err |-> TRUE, median |-> Zero, min |-> Zero, max |-> Zero, mad |-> Zero]

cycles_stats(data, n, env) ==
    IF ~env.malloc THEN StatsUnwritten
    ELSE StatsSorted(qsort(data, "ullcmp"), n, env.undef)

(***************************************************************************)
(* The program state                                                       *)
(*   gen[h]    the caller's handle h and the generator it points to        *)
(*   hist[h]   the method calls made through h, oldest first, each with    *)
(*             the words of the generator before and after, the buffer     *)
(*             written and the raw words drawn                             *)
(*   rdlog[h]  the RdRandRetry calls made while constructing gen[h]        *)
(*   tsc_hz    the static tsc_hz of timer.c                                *)
(*   tcalls    the TimerGetHz and TimerElapsedTime calls made, oldest      *)
(*             first, each with the frequency before and after, whether    *)
(*             the estimate ran and on which measurements, and the result  *)
(*   stats     the cycles_stats calls made, oldest first                   *)
(***************************************************************************)
Handles == {1, 2}

\* a word of the hardware source: 0x6A2B51650BC99DC4, which one round of
\* NextXSH64 takes to UINT64_MAX
HwWord == W(106, 43, 81, 101, 11, 201, 157, 196)

\* inputs the environment and the callers draw from
FullMenu ==
    [handles |-> {1},
     ids |-> {SPK_GENERATOR_PCG64i, SPK_GENERATOR_XSH64, SPK_GENERATOR_LCG128, 0},
     seeds |-> {Zero, FromNat(1), FromNat(2)},
     malloc |-> {TRUE, FALSE},
     garbage |-> {Zero, Ones},
     hwvalues |-> {Zero, HwWord},
     underflows |-> {0, RetryLimit - 1} \cup (RetryLimit..MaxUnderflow),
     nextCounts |-> 0..MaxCount,
     randCounts |-> {0, MaxCount},
     counts |-> {MaxCount},
     ranges |-> {<<Zero, One>>, <<Zero, Ones>>, <<FromNat(5), FromNat(7)>>,
                 <<FromNat(3), FromNat(3)>>, <<One, FromNat(5)>>},
     undef |-> {Ones, Zero},
     probs |-> {[num |-> 1, scale |-> 1], [num |-> 5, scale |-> 3]},
     exps |-> {1, 3},
     badArgs |-> {<<[num |-> 0, scale |-> 1], 3>>, <<[num |-> -1, scale |-> 1], 3>>,
                  <<[num |-> 2, scale |-> 1], 3>>, <<[num |-> 5, scale |-> 3], 0>>,
                  <<[num |-> 5, scale |-> 3], 65>>}]

\* two handles, for comparing generators
PairMenu ==
    [handles |-> {1, 2},
     ids |-> {SPK_GENERATOR_PCG64i, SPK_GENERATOR_XSH64},
     seeds |-> {FromNat(1), FromNat(2)},
     malloc |-> {TRUE},
     garbage |-> {Zero},
     hwvalues |-> {Zero, HwWord},
     underflows |-> {0},
     nextCounts |-> {MaxCount},
     randCounts |-> {MaxCount},
     counts |-> {MaxCount},
     ranges |-> {<<FromNat(5), FromNat(7)>>},
     undef |-> {Ones},
     probs |-> {[num |-> 5, scale |-> 3]},
     exps |-> {3},
     badArgs |-> {}]

NoArgs == [min |-> Zero, max |-> Zero, undef |-> Zero,
           p |-> [num |-> 0, scale |-> 0], exp |-> 0]

Words(g) == [state |-> g.state, increment |-> g.increment]

LastCall(h) == hist[h][Len(hist[h])]

\* a rejection loop that has not accepted is still running: the program
\* makes no other call meanwhile
Spinning == \E h \in Handles : hist[h] # <<>> /\ ~LastCall(h).returned

Usable(h) ==
    /\ ~Spinning
    /\ gen[h].ptr = "obj"
    /\ gen[h].methods \in {"PCG64i", "XSH64"}
    /\ Len(hist[h]) < MaxCalls

\* what a method call leaves behind
Record(h, op, n, args, r) ==
    /\ gen' = [gen EXCEPT ![h].state = r.st.state, ![h].increment = r.st.increment]
    /\ hist' = [hist EXCEPT ![h] = Append(@,
                   [op |-> op, n |-> n, args |-> args, pre |-> Words(gen[h]),
                    post |-> r.st, dest |-> r.dest, raws |-> r.raws,
                    err |-> r.err, returned |-> r.returned])]
    /\ UNCHANGED <<rdlog, tsc_hz, tcalls, stats, thr>>

GeneratorNew(h, m) ==
    /\ ~Spinning
    /\ gen[h].ptr = "uninit"
    /\ gen[h].err = SPK_ERROR_UNDEFINED
    /\ \E identifier \in m.ids, seed \in m.seeds, ok \in m.malloc :
       \E g1 \in m.garbage, g2 \in m.garbage :
       \E v1 \in m.hwvalues, v2 \in m.hwvalues :
       \E f1 \in m.underflows, f2 \in m.underflows :
          LET env == [malloc |-> ok, garbage |-> <<g1, g2>>,
                      hw |-> <<[fails |-> f1, value |-> v1],
                               [fails |-> f2, value |-> v2]>>]
              r == spk_GeneratorNew(gen[h], identifier, seed, env)
          IN  /\ gen' = [gen EXCEPT ![h] = [r.rng EXCEPT !.err = r.err,
                                                         !.id = identifier,
                                                         !.seed = seed,
                                                         !.oom = ~ok]]
              /\ rdlog' = [rdlog EXCEPT ![h] = r.rd]
              /\ UNCHANGED <<hist, tsc_hz, tcalls, stats, thr>>

\* spk_GeneratorDelete(rng), once per handle
CallDelete(h) ==
    /\ ~Spinning
    /\ gen[h].ptr \in {"obj", "null"}
    /\ ~gen[h].deleted
    /\ gen' = [gen EXCEPT ![h] = [spk_GeneratorDelete(@) EXCEPT !.deleted = TRUE]]
    /\ UNCHANGED <<hist, rdlog, tsc_hz, tcalls, stats, thr>>

\* rng->next(rng->state, dest, n)
CallNext(h, m) ==
    /\ Usable(h)
    /\ \E n \in m.nextCounts :
          LET t == IF gen[h].methods = "PCG64i"
                   THEN NextPCG64i(Words(gen[h]), n)
                   ELSE NextXSH64(Words(gen[h]), n)
              r == [st |-> t.st, dest |-> t.dest, raws |-> <<t.dest>>,
                    returned |-> TRUE, err |-> t.err]
          IN  Record(h, "next", n, NoArgs, r)

\* rng->rand(rng, dest, n, min, max), min <= max
CallRand(h, m) ==
    /\ Usable(h)
    /\ \E n \in m.randCounts, range \in m.ranges :
       \E undef \in IF range[1] = range[2] THEN m.undef ELSE {Zero} :
          LET r == IF gen[h].methods = "PCG64i"
                   THEN RandPCG64i(Words(gen[h]), n, range[1], range[2], undef)
                   ELSE RandXSH64(Words(gen[h]), n, range[1], range[2], undef)
          IN  Record(h, "rand", n,
                     [NoArgs EXCEPT !.min = range[1], !.max = range[2],
                                    !.undef = undef], r)

\* rng->bias(rng, dest, n, p, exp)
CallBias(h, m) ==
    /\ Usable(h)
    /\ \E n \in m.counts, a \in (m.probs \X m.exps) \cup m.badArgs :
          LET p == a[1]
              exp == a[2]
              r == IF gen[h].methods = "PCG64i"
                   THEN BiasPCG64i(Words(gen[h]), n, p, exp)
                   ELSE BiasXSH64(Words(gen[h]), n, p, exp)
          IN  Record(h, "bias", n, [NoArgs EXCEPT !.p = p, !.exp = exp], r)

\* rng->unid(rng, dest, n)
CallUnid(h, m) ==
    /\ Usable(h)
    /\ \E n \in m.counts :
          LET r == IF gen[h].methods = "PCG64i"
                   THEN UnidPCG64i(Words(gen[h]), n)
                   ELSE UnidXSH64(Words(gen[h]), n)
          IN  Record(h, "unid", n, NoArgs, r)

Init ==
    /\ gen = [h \in Handles |-> NoGenerator]
    /\ hist = [h \in Handles |-> <<>>]
    /\ rdlog = [h \in Handles |-> <<>>]
    /\ tsc_hz = INIT_HZ
    /\ tcalls = <<>>
    /\ stats = <<>>
    /\ thr = [t \in Threads |-> ThreadStart]

NextWith(m) ==
    \E h \in m.handles :
        \/ GeneratorNew(h, m)
        \/ CallNext(h, m)
        \/ CallRand(h, m)
        \/ CallBias(h, m)
        \/ CallUnid(h, m)

Next == NextWith(FullMenu) \/ \E h \in FullMenu.handles : CallDelete(h)

NextPair == NextWith(PairMenu)

\* one caller, every input
Spec == Init /\ [][Next]_vars

\* two callers
SpecPair == Init /\ [][NextPair]_vars

(***************************************************************************)
(* The timer calls                                                         *)
(***************************************************************************)
\* a trial that starts at the counter reading 1000 and stops cycles later
Ran(cycles) == <<U64(1000), Add(U64(1000), cycles)>>

\* n1 trials of x1 cycles followed by n2 trials of x2 cycles
Samples(n1, x1, n2, x2) ==
    [i \in 1..(n1 + n2) |-> IF i <= n1 THEN Ran(x1) ELSE Ran(x2)]

\* the first trial is replaced by one whose counter ran backwards, from the
\* reading 100 to the reading 60
BackwardsFirst(trials) == [trials EXCEPT ![1] = <<U64(100), U64(60)>>]

\* UINT64_MAX / 1000
Quot1000 == W(0, 65, 137, 55, 75, 198, 167, 239)

\* the measurements a calibration may see: the two columns of a row are
\* the trials around the 100 one-nanosecond sleeps and around the 10
\* one-second sleeps
Measured(nanos, seconds) == [nanos |-> nanos, seconds |-> seconds]

TimerMenu ==
    [envs   |-> {Measured(Samples(40, U64(90), 60, U64(40)),
                          Samples(4, U64(5000), 6, U64(1064))),
                 Measured(Samples(50, U64(90), 50, U64(40)),
                          Samples(5, U64(5000), 5, U64(1064))),
                 Measured(Samples(40, U64(90), 60, U64(40)),
                          Samples(3, U64(2000000000), 7, U64(1000000040))),
                 Measured(Samples(40, U64(90), 60, U64(40)),
                          Samples(5, U64(39), 5, U64(39))),
                 Measured(Samples(40, U64(90), 60, U64(40)),
                          Samples(5, U64(40), 5, U64(40))),
                 Measured(Samples(40, U64(90), 60, U64(40)),
                          Samples(1, Zero, 9, U64(1064))),
                 Measured(Samples(1, Zero, 99, U64(40)),
                          Samples(4, U64(5000), 6, U64(1064))),
                 Measured(BackwardsFirst(Samples(40, U64(90), 60, U64(40))),
                          BackwardsFirst(Samples(4, U64(5000), 6, U64(1064))))},
     \* what a calibration would measure once the frequency is cached
     later  |-> {Measured(Samples(40, U64(90), 60, U64(40)),
                          Samples(4, U64(5000), 6, U64(2088)))},
     cycles |-> {Zero, One, U64(1024), U64(1536), U64(999999), U64(1000000),
                 U64(1500000000), Quot1000, Ones}]

MeasuredNow(m) == IF tsc_hz = INIT_HZ THEN m.envs ELSE m.later

NoEnv == [nanos |-> <<>>, seconds |-> <<>>]

\* a failed assertion has ended the process
TimerAborted == tcalls # <<>> /\ tcalls[Len(tcalls)].aborted

TimerReady == ~TimerAborted /\ Len(tcalls) < MaxTimerCalls

TimerRecord(op, cycles, env, set, tr) ==
    /\ tsc_hz' = set.tsc_hz
    /\ tcalls' = Append(tcalls,
                   [op |-> op, cycles |-> cycles, before |-> tsc_hz,
                    ran |-> set.ran, env |-> IF set.ran THEN env ELSE NoEnv,
                    hz |-> set.tsc_hz, setAborted |-> set.aborted,
                    tr |-> tr, aborted |-> set.aborted \/ tr.aborted])
    /\ UNCHANGED <<gen, hist, rdlog, stats, thr>>

\* TimerGetHz()
CallTimerGetHz(m) ==
    /\ TimerReady
    /\ \E env \in MeasuredNow(m) :
          TimerRecord("TimerGetHz", Zero, env, TimerGetHz(tsc_hz, env),
                      [NoResult EXCEPT !.aborted = FALSE])

TimerElapsedRecord(cycles, env, r) ==
    TimerRecord("TimerElapsedTime", cycles, env, r.set, r.tr)

\* TimerElapsedTime(cycles)
CallTimerElapsedTime(m) ==
    /\ TimerReady
    /\ \E cycles \in m.cycles, env \in MeasuredNow(m) :
          TimerElapsedRecord(cycles, env,
                             TimerElapsedTime(tsc_hz, cycles, env))

NextTimer ==
    \/ CallTimerGetHz(TimerMenu)
    \/ CallTimerElapsedTime(TimerMenu)

\* the timer alone
SpecTimer == Init /\ [][NextTimer]_vars

(***************************************************************************)
(* The cycles_stats calls                                                  *)
(***************************************************************************)
RECURSIVE SeqsUpTo(_, _)
SeqsUpTo(values, len) ==
    IF len = 0 THEN {<<>>}
    ELSE SeqsUpTo(values, len - 1)
         \cup {Append(d, v) : d \in {e \in SeqsUpTo(values, len - 1) : Len(e) = len - 1},
                              v \in values}

StatsMenu ==
    [data   |-> (SeqsUpTo({One, U64(2), U64(5), LLongMin, Ones}, MaxSamples)
                 \ {<<>>})
                \cup {<<One, U64(2), U64(3), U64(4), U64(5)>>,
                      <<U64(5), U64(3), One, U64(4), U64(2)>>,
                      <<U64(7), U64(1000), U64(7), U64(9), U64(8), U64(7)>>},
     malloc |-> {TRUE, FALSE},
     undef  |-> {Zero, Ones}]

\* the call reaches a signed overflow in its deviation loop
StatsOverflow(data, ok) ==
    ok /\ Overflows(data, Middle(qsort(data, "ullcmp"), Len(data)))

\* the values the undefined overflow may leave, when one is reached
UndefNow(m, data, ok) == IF StatsOverflow(data, ok) THEN m.undef ELSE {Zero}

\* cycles_stats(data, n, &median, &mad, &min, &max)
CallCyclesStats(m) ==
    \* one call: cycles_stats keeps nothing from one call to the next
    /\ stats = <<>>
    /\ \E data \in m.data, ok \in m.malloc :
       \E undef \in UndefNow(m, data, ok) :
          /\ stats' = Append(stats,
                 [data |-> data, n |-> Len(data), malloc |-> ok,
                  overflow |-> StatsOverflow(data, ok),
                  out |-> cycles_stats(data, Len(data),
                                       [malloc |-> ok, undef |-> undef])])
          /\ UNCHANGED <<gen, hist, rdlog, tsc_hz, tcalls, thr>>

NextStats == CallCyclesStats(StatsMenu)

\* the statistics alone
SpecStats == Init /\ [][NextStats]_vars

(***************************************************************************)
(* Properties                                                              *)
(***************************************************************************)
Created(h) == gen[h].err = SPK_ERROR_SUCCESS

IsPCG(h) == Created(h) /\ gen[h].id = SPK_GENERATOR_PCG64i

IsXSH(h) == Created(h) /\ gen[h].id = SPK_GENERATOR_XSH64

CallsOf(h, op) == {i \in 1..Len(hist[h]) : hist[h][i].op = op}

\* what the caller passed and what the caller got back, call by call
Asked(h) ==
    [i \in 1..Len(hist[h]) |->
        [op |-> hist[h][i].op, n |-> hist[h][i].n,
         min |-> hist[h][i].args.min, max |-> hist[h][i].args.max,
         p |-> hist[h][i].args.p, exp |-> hist[h][i].args.exp]]

Answered(h) ==
    [i \in 1..Len(hist[h]) |->
        [dest |-> hist[h][i].dest, err |-> hist[h][i].err,
         returned |-> hist[h][i].returned]]

SameSeeded(a, b) ==
    /\ Created(a) /\ Created(b)
    /\ gen[a].id = gen[b].id
    /\ gen[a].seed = gen[b].seed
    /\ gen[a].seed # Zero

\* C1: two generators created with the same algorithm and the same non-zero
\* seed, after the same sequence of next/rand/bias/unid calls, have written
\* the same outputs and hold the same state words.
C1_Determinism ==
    \A a \in Handles, b \in Handles :
        (SameSeeded(a, b) /\ Asked(a) = Asked(b))
            => (Answered(a) = Answered(b) /\ Words(gen[a]) = Words(gen[b]))

C1_Witness ==
    /\ SameSeeded(1, 2)
    /\ Len(hist[1]) = MaxCalls
    /\ Asked(1) = Asked(2)
    /\ hist[1][1].op = "rand"
    /\ hist[1][2].op = "bias"
    /\ hist[1][2].dest # <<>>

\* C2: every value written by rand lies in [min, max], for every min <= max,
\* count and generator state (a zero-width range included).
C2_BoundInclusive ==
    \A h \in Handles : \A i \in CallsOf(h, "rand") :
        \A k \in 1..Len(hist[h][i].dest) :
            /\ Leq(hist[h][i].args.min, hist[h][i].dest[k])
            /\ Leq(hist[h][i].dest[k], hist[h][i].args.max)

C2_Witness ==
    \E h \in Handles : \E i \in CallsOf(h, "rand") :
        /\ hist[h][i].returned
        /\ hist[h][i].args.min = FromNat(5)
        /\ hist[h][i].args.max = FromNat(7)
        /\ Len(hist[h][i].dest) = MaxCount
        /\ \E k \in 1..MaxCount : Len(hist[h][i].raws[k]) > 1

FullRange(c) == c.args.min = Zero /\ c.args.max = Ones

\* C3: rand over [0, UINT64_MAX] writes exactly the words next writes from
\* the same starting state, rejects no draw and ends in the same state.
C3_FullRangeIsNext ==
    \A h \in Handles : \A i \in CallsOf(h, "rand") :
        FullRange(hist[h][i]) =>
            LET c == hist[h][i]
                raw == RawNext(gen[h].methods, c.pre, c.n)
            IN  /\ c.returned
                /\ c.dest = raw.dest
                /\ c.post = raw.st
                /\ Len(c.raws) = c.n
                /\ \A k \in 1..c.n : Len(c.raws[k]) = 1

C3_Witness ==
    \E h \in Handles : \E i \in CallsOf(h, "rand") :
        /\ FullRange(hist[h][i])
        /\ hist[h][i].n = MaxCount
        /\ Len(hist[h][i].dest) = MaxCount
        /\ hist[h][i].dest[1] # hist[h][i].dest[2]
        /\ i = MaxCalls

\* 2^k - 1 as a word, 0 <= k <= 64
LowBits(k) == IF k = 64 THEN Ones ELSE Sub(Shl(One, k), One)

\* the smallest 2^k - 1 that is >= ceil
SmallestMask(ceil) ==
    LowBits(CHOOSE k \in 0..64 :
                /\ Leq(ceil, LowBits(k))
                /\ \A j \in 0..(k - 1) : Gt(ceil, LowBits(j)))

\* C4: for min < max, a raw word is accepted exactly when its masked value is
\* at most max - min, and the value emitted for it is its masked value plus
\* min: each v in [min, max], max included, is emitted for exactly the raw
\* words whose masked value is v - min.
C4_Unbiased ==
    \A h \in Handles : \A i \in CallsOf(h, "rand") :
        Gt(hist[h][i].args.max, hist[h][i].args.min) =>
            LET c == hist[h][i]
                ceil == Sub(c.args.max, c.args.min)
                mask == SmallestMask(ceil)
            IN  \A k \in 1..Len(c.raws) : \A j \in 1..Len(c.raws[k]) :
                    IF j = Len(c.raws[k]) /\ k <= Len(c.dest)
                    THEN /\ Leq(And(c.raws[k][j], mask), ceil)
                         /\ c.dest[k] = Add(And(c.raws[k][j], mask), c.args.min)
                    ELSE Gt(And(c.raws[k][j], mask), ceil)

C4_Witness ==
    \E h \in Handles : \E i \in CallsOf(h, "rand") :
        /\ Gt(hist[h][i].args.max, hist[h][i].args.min)
        /\ ~FullRange(hist[h][i])
        /\ hist[h][i].returned
        /\ \E k \in 1..Len(hist[h][i].dest) :
              hist[h][i].dest[k] = hist[h][i].args.max
        /\ \E k \in 1..Len(hist[h][i].dest) :
              hist[h][i].dest[k] = hist[h][i].args.min

\* C5: after a successful create(PCG64Insecure, seed), hashed or hardware
\* seeded, the increment is odd, and no method call has changed it.
C5_IncrementOdd ==
    \A h \in Handles :
        IsPCG(h) =>
            /\ Bit(gen[h].increment, 0) = 1
            /\ \A i \in 1..Len(hist[h]) :
                  /\ hist[h][i].pre.increment = gen[h].increment
                  /\ hist[h][i].post.increment = gen[h].increment

C5_Witness ==
    \E h \in Handles :
        /\ IsPCG(h)
        /\ gen[h].seed = Zero
        /\ rdlog[h][2].x = Zero
        /\ Len(hist[h]) = MaxCalls
        /\ {hist[h][i].op : i \in 1..Len(hist[h])} = {"rand", "bias"}

\* C6: after every successful create(Xorshift64, seed), seed 0 included, the
\* state word is not 0.
C6_XshStateNonZero ==
    \A h \in Handles :
        (IsXSH(h) /\ hist[h] = <<>>) => gen[h].state # Zero

\* n calls of next with count 1, one after the other
RECURSIVE Singles(_, _, _, _)
Singles(algo, st, dest, n) ==
    IF n = 0 THEN [st |-> st, dest |-> dest]
    ELSE LET one == RawNext(algo, st, 1)
         IN  Singles(algo, one.st, dest \o one.dest, n - 1)

\* C7: one next call with count n writes the same n words and leaves the
\* same state as n next calls with count 1; n = 0 leaves the state unchanged.
C7_NextIsSingles ==
    \A h \in Handles : \A i \in CallsOf(h, "next") :
        LET c == hist[h][i]
            one == Singles(gen[h].methods, c.pre, <<>>, c.n)
        IN  /\ Len(c.dest) = c.n
            /\ c.dest = one.dest
            /\ c.post = one.st
            /\ (c.n = 0 => c.post = c.pre)

C7_Witness ==
    \E h \in Handles : \E i \in CallsOf(h, "next") :
        /\ hist[h][i].n = MaxCount
        /\ hist[h][i].post # hist[h][i].pre
        /\ \E j \in CallsOf(h, "next") : hist[h][j].n = 0

\* the output function of the claim: x = ((s >> ((s >> 59) + 5)) ^ s) * 0xAEF17502108EF2D9,
\* output = x ^ (x >> 43)
PcgOutput(s) ==
    LET x == Mul(Xor(Shr(s, Shr(s, 59)[1] + 5), s), W(174, 241, 117, 2, 16, 142, 242, 217))
    IN  Xor(x, Shr(x, 43))

\* s * 0x5851F42D4C957F2D + increment, k times
RECURSIVE LcgAfter(_, _, _)
LcgAfter(s, increment, k) ==
    IF k = 0 THEN s
    ELSE LcgAfter(Add(Mul(s, W(88, 81, 244, 45, 76, 149, 127, 45)), increment),
                  increment, k - 1)

\* C8: each word PCG64Insecure.next emits is the permutation of the state
\* before that word's advance, and the state then advances by the LCG step;
\* random_next_pcg64_insecure, which advances first, still returns the
\* permutation of the state it started from.
C8_PcgEmitsPreAdvance ==
    \A h \in Handles : \A i \in CallsOf(h, "next") :
        IsPCG(h) =>
            LET c == hist[h][i]
                old == random_next_pcg64_insecure(c.pre)
            IN  /\ \A k \in 1..c.n :
                      c.dest[k] = PcgOutput(LcgAfter(c.pre.state, c.pre.increment, k - 1))
                /\ c.post.state = LcgAfter(c.pre.state, c.pre.increment, c.n)
                /\ old.out = PcgOutput(c.pre.state)
                /\ old.st.state = LcgAfter(c.pre.state, c.pre.increment, 1)

C8_Witness ==
    \E h \in Handles : \E i \in CallsOf(h, "next") :
        /\ IsPCG(h)
        /\ hist[h][i].n = MaxCount
        /\ hist[h][i].dest[1] # PcgOutput(hist[h][i].post.state)
        /\ hist[h][i].dest[MaxCount] # PcgOutput(hist[h][i].post.state)

\* state ^= state << 13; state ^= state >> 7; state ^= state << 17, k times
RECURSIVE XshAfter(_, _)
XshAfter(s, k) ==
    IF k = 0 THEN s
    ELSE LET a == Xor(s, Shl(s, 13))
             b == Xor(a, Shr(a, 7))
         IN  XshAfter(Xor(b, Shl(b, 17)), k - 1)

\* C9: each word Xorshift64.next emits is the state after that word's three
\* shift-xor steps: the emitted word equals the new state.
C9_XshEmitsNewState ==
    \A h \in Handles : \A i \in CallsOf(h, "next") :
        IsXSH(h) =>
            LET c == hist[h][i]
            IN  /\ \A k \in 1..c.n : c.dest[k] = XshAfter(c.pre.state, k)
                /\ c.post.state = XshAfter(c.pre.state, c.n)
                /\ (c.n > 0 => c.dest[c.n] = c.post.state)

C9_Witness ==
    \E h \in Handles : \E i \in CallsOf(h, "next") :
        /\ IsXSH(h)
        /\ hist[h][i].n = MaxCount
        /\ hist[h][i].pre.state # Zero
        /\ hist[h][i].dest[MaxCount] # hist[h][i].pre.state

Called(h) == gen[h].err # SPK_ERROR_UNDEFINED

\* the state words the hardware source is asked for
WordsNeeded(h) == IF gen[h].id = SPK_GENERATOR_PCG64i THEN 2 ELSE 1

\* C10: with seed 0 each state word is asked of the hardware source with at
\* most 10 attempts; when the 10 attempts for a word fail create returns
\* SPK_ERROR_RDRAND with no methods hooked, and a successful create holds
\* the hardware's words; with a non-zero seed the source is never invoked.
C10_HardwareSeeding ==
    \A h \in Handles :
        Called(h) =>
            /\ gen[h].seed # Zero => rdlog[h] = <<>>
            /\ \A i \in 1..Len(rdlog[h]) :
                  /\ rdlog[h][i].attempts \in 1..10
                  /\ (rdlog[h][i].err = SPK_ERROR_RDRAND) = (i = Len(rdlog[h]) /\ ~Created(h))
                  /\ rdlog[h][i].err = SPK_ERROR_RDRAND => rdlog[h][i].attempts = 10
            /\ (gen[h].err = SPK_ERROR_RDRAND) =
                  (rdlog[h] # <<>> /\ rdlog[h][Len(rdlog[h])].err = SPK_ERROR_RDRAND)
            /\ gen[h].err = SPK_ERROR_RDRAND =>
                  /\ gen[h].seed = Zero
                  /\ gen[h].methods = "unhooked"
                  /\ hist[h] = <<>>
            /\ (Created(h) /\ gen[h].seed = Zero) =>
                  /\ Len(rdlog[h]) = WordsNeeded(h)
                  /\ hist[h] = <<>> => gen[h].state = rdlog[h][1].x
                  /\ IsPCG(h) => gen[h].increment = Or(rdlog[h][2].x, One)

C10_Witness ==
    \E h \in Handles :
        /\ gen[h].id = SPK_GENERATOR_PCG64i
        /\ gen[h].err = SPK_ERROR_RDRAND
        /\ Len(rdlog[h]) = 2
        /\ rdlog[h][1].attempts = 10
        /\ rdlog[h][1].err = SPK_ERROR_SUCCESS
        /\ rdlog[h][2].attempts = 10
\* bias arguments outside 0 < p < 1, 0 < exp < 65
BadBias(c) ==
    \/ c.args.p.num <= 0
    \/ c.args.p.num >= Pow2(c.args.p.scale)
    \/ c.args.exp <= 0
    \/ c.args.exp >= 65

KnownId(h) == gen[h].id \in {SPK_GENERATOR_PCG64i, SPK_GENERATOR_XSH64}

C13_MallocFailure ==
    \A h \in Handles :
        (Called(h) /\ KnownId(h) /\ gen[h].oom) =>
            /\ gen[h].err = SPK_ERROR_STDMALLOC
            /\ gen[h].ptr = "null"
            /\ gen[h].algo = "none"
            /\ gen[h].methods = "none"
            /\ rdlog[h] = <<>>

C13_Witness ==
    /\ Called(1)
    /\ gen[1].id = SPK_GENERATOR_XSH64
    /\ gen[1].seed = Zero
    /\ gen[1].oom
    /\ gen[1].err = SPK_ERROR_STDMALLOC
    /\ gen[1].ptr = "null"

\* One lane of bias: every buffer word is drawn as all ones or all zeros, so
\* bit 0 of the accumulator is that lane's output for the assignment.
LaneOnes(bitcode, offset, total) ==
    Cardinality({buffer \in [1..total -> {Zero, Ones}] :
                    Bit(BiasCombine(bitcode, offset, buffer, Zero, 0, total), 0) = 1})

\* C14: for a valid bias call with bitcode b, offset = trailing zeros of b
\* and total = exp - offset, exactly b / 2^offset of the 2^total assignments
\* of fair bits to one lane's draws give the output bit 1.
C14_BiasExactBernoulli ==
    \A h \in Handles : \A i \in CallsOf(h, "bias") :
        ~BadBias(hist[h][i]) =>
            LET c == hist[h][i]
                bitcode == BiasBitcode(c.args.p, c.args.exp)
                offset == CtzFrom(bitcode, 1)
            IN  LaneOnes(bitcode, offset, c.args.exp - offset)
                    = ToNat(bitcode) \div Pow2(offset)

\* C15: every double unid writes is w * 2^-64 for the raw word w drawn and
\* lies in [0.0, 1.0): the value 1.0 is never written.
C15_UnidBelowOne ==
    \A h \in Handles : \A i \in CallsOf(h, "unid") :
        \A k \in 1..hist[h][i].n :
            /\ hist[h][i].dest[k] = Ldexp64(ToDouble(hist[h][i].raws[1][k]))
            /\ hist[h][i].dest[k][1] = 0

(***************************************************************************)
(* The timer                                                               *)
(***************************************************************************)
\* the calls made after the first one
LaterCalls == {i \in 1..Len(tcalls) : i > 1}

\* the first call came back from TimerSetHz
Calibrated == tcalls # <<>> /\ ~tcalls[1].setAborted

\* C16: once the first TimerGetHz or TimerElapsedTime call has run the
\* estimate, tsc_hz is non-zero; no later call runs the estimate again, every
\* later call leaves tsc_hz at that value, and TimerGetHz returns it.
C16_FrequencyMemoized ==
    Calibrated =>
        /\ tcalls[1].ran
        /\ tcalls[1].hz # Zero
        /\ tsc_hz = tcalls[1].hz
        /\ \A i \in LaterCalls :
              /\ ~tcalls[i].ran
              /\ ~tcalls[i].setAborted
              /\ tcalls[i].before = tcalls[1].hz
              /\ tcalls[i].hz = tcalls[1].hz

C16_Witness ==
    /\ Len(tcalls) = 3
    /\ Calibrated
    /\ tcalls[1].hz = U64(4910)
    /\ tcalls[2].op = "TimerElapsedTime"
    /\ tcalls[3].op = "TimerGetHz"
    /\ tcalls[3].hz = U64(4910)
    /\ ~tcalls[3].aborted

\* the TimerElapsedTime calls that got a frequency from TimerSetHz
ElapsedCalls ==
    {i \in 1..Len(tcalls) :
        tcalls[i].op = "TimerElapsedTime" /\ ~tcalls[i].setAborted}

\* C17: TimerElapsedTime returns for every cycle count, 0 and counts below
\* one nanosecond included, with a resolution among seconds, milliseconds,
\* microseconds and nanoseconds: the scaling stops at nanoseconds.
C17_ElapsedStopsAtNanoseconds ==
    \A i \in ElapsedCalls :
        /\ ~tcalls[i].tr.aborted
        /\ tcalls[i].tr.resolution \in TIMER_SECONDS..TIMER_NANOSECONDS

\* x * 1000 >= f, without overflow
TimesGeq(x, f) == Gt(x, Quot1000) \/ Leq(f, Mul(x, U64(1000)))

\* the first unit index k >= 1 with t * 1000^k >= f, x being t * 1000^(k-1);
\* 4 when there is none up to nanoseconds
RECURSIVE UnitFrom(_, _, _)
UnitFrom(x, f, k) ==
    IF k > TIMER_NANOSECONDS THEN k
    ELSE IF TimesGeq(x, f) THEN k
    ELSE UnitFrom(Mul(x, U64(1000)), f, k + 1)

\* seconds if t >= f, milliseconds if f/10^3 <= t < f, microseconds if
\* f/10^6 <= t < f/10^3, nanoseconds if f/10^9 <= t < f/10^6
UnitOf(t, f) == IF Leq(f, t) THEN TIMER_SECONDS ELSE UnitFrom(t, f, 1)

\* the TimerElapsedTime calls with cycles >= tsc_hz / 10^9
CoveredCalls ==
    {i \in ElapsedCalls : UnitOf(tcalls[i].cycles, tcalls[i].hz) <= TIMER_NANOSECONDS}

UnitReported(i) ==
    /\ ~tcalls[i].tr.aborted
    /\ tcalls[i].tr.resolution = UnitOf(tcalls[i].cycles, tcalls[i].hz)
    /\ tcalls[i].tr.symbol =
           <<"sec", "ms", "us", "ns">>[UnitOf(tcalls[i].cycles, tcalls[i].hz) + 1]

Floor1024(v) ==
    IF v[2] + 10 >= 0 THEN Shl(v[1], v[2] + 10)
    ELSE IF v[2] + 10 <= -64 THEN Zero
    ELSE Shr(v[1], -(v[2] + 10))

Thousands == <<One, U64(1000), U64(1000000), U64(1000000000)>>

\* v is t / f * 1000^k to within 1/1024: floor(1024 v) f <= 1024 t 1000^k
\* <= (floor(1024 v) + 1) f
ValueReported(v, t, f, k) ==
    /\ Leq(Mul(Floor1024(v), f), Mul(Mul(t, Thousands[k + 1]), U64(1024)))
    /\ Leq(Mul(Mul(t, Thousands[k + 1]), U64(1024)),
           Mul(Add(Floor1024(v), One), f))

Below(w, bits) == Shr(w, bits) = Zero

StatsCalls == {c \in 1..Len(stats) : ~stats[c].out.err}

Places(values) == 1..Len(values)

NumBelow(values, x) == Cardinality({i \in Places(values) : Gt(x, values[i])})

NumUpTo(values, x) == Cardinality({i \in Places(values) : Leq(values[i], x)})

\* x stands at place k (counted from 1) when values is put in ascending order
AtPlace(values, x, k) ==
    /\ \E i \in Places(values) : values[i] = x
    /\ NumBelow(values, x) < k
    /\ k <= NumUpTo(values, x)

\* for odd n the middle element of the sorted values
MiddleIfOdd(values, x) ==
    Len(values) % 2 = 1 => AtPlace(values, x, (Len(values) + 1) \div 2)

\* C19 as stated: for odd N the median is the middle element of the sorted
\* copy, for even N it is the lower of the two middle elements.
C19_LowerMedian ==
    \A c \in StatsCalls :
        /\ MiddleIfOdd(stats[c].data, stats[c].out.median)
        /\ stats[c].n % 2 = 0 =>
              AtPlace(stats[c].data, stats[c].out.median, stats[c].n \div 2)

\* C19: for odd N the median is the middle element of the sorted copy; for
\* even N it is the element at index N/2, counted from 0, of the sorted copy,
\* which is the upper of the two middle elements, and an element of the
\* sample, never an average.
C19_UpperMedian ==
    \A c \in StatsCalls :
        /\ MiddleIfOdd(stats[c].data, stats[c].out.median)
        /\ stats[c].n % 2 = 0 =>
              AtPlace(stats[c].data, stats[c].out.median, (stats[c].n \div 2) + 1)

C19_Witness ==
    \E c \in StatsCalls :
        /\ stats[c].data = <<U64(5), One, U64(2), One>>
        /\ stats[c].out.median = U64(2)

\* |a - b| of two unsigned values
AbsDiff(a, b) == IF Gt(a, b) THEN Sub(a, b) ELSE Sub(b, a)

TrueDeviations(data, median) == [i \in Places(data) |-> AbsDiff(data[i], median)]

\* min, max and median absolute deviation of the call c
StatsRight(c) ==
    /\ AtPlace(stats[c].data, stats[c].out.min, 1)
    /\ AtPlace(stats[c].data, stats[c].out.max, stats[c].n)
    /\ AtPlace(TrueDeviations(stats[c].data, stats[c].out.median),
               stats[c].out.mad, (stats[c].n \div 2) + 1)

CeilOf(c) == Sub(c.args.max, c.args.min)

\* the mask a rand call with a non-zero ceiling computes
MaskOf(c) == RandMask(CeilOf(c), c.args.undef)

\* C21: for every ceiling max - min > 0 the rejection mask has the form
\* 2^k - 1, is at least the ceiling, and no smaller mask of that form is:
\* half of it is below the ceiling, so more than half of the masked values
\* are accepted (ceiling + 1 > (mask + 1) / 2).
C21_MaskWastesLessThanHalf ==
    \A h \in Handles : \A i \in CallsOf(h, "rand") :
        CeilOf(hist[h][i]) # Zero =>
            /\ And(MaskOf(hist[h][i]), Add(MaskOf(hist[h][i]), One)) = Zero
            /\ Leq(CeilOf(hist[h][i]), MaskOf(hist[h][i]))
            /\ Gt(CeilOf(hist[h][i]), Shr(MaskOf(hist[h][i]), 1))
            /\ \A k \in 1..Len(hist[h][i].raws) :
               \A d \in 1..Len(hist[h][i].raws[k]) :
                  (hist[h][i].returned \/ k < Len(hist[h][i].raws))
                  => (Gt(And(hist[h][i].raws[k][d], MaskOf(hist[h][i])),
                         CeilOf(hist[h][i]))
                      <=> d < Len(hist[h][i].raws[k]))

C21_Witness ==
    \E h \in Handles : \E i \in CallsOf(h, "rand") :
        /\ hist[h][i].returned
        /\ CeilOf(hist[h][i]) = FromNat(4)
        /\ MaskOf(hist[h][i]) = FromNat(7)
        /\ \E k \in 1..Len(hist[h][i].raws) : Len(hist[h][i].raws[k]) > 1

\* C22: after spk_GeneratorDelete returns, the caller's handle is NULL.
C22_DeletedHandleIsNull ==
    \A h \in Handles : gen[h].deleted => gen[h].ptr = "null"

(***************************************************************************)
(* The timer, continued                                                    *)
(***************************************************************************)
\* some trial of the calibration stopped at a lower count than it started
Backwards(env) ==
    \/ \E i \in 1..Len(env.nanos) : Gt(env.nanos[i][1], env.nanos[i][2])
    \/ \E i \in 1..Len(env.seconds) : Gt(env.seconds[i][1], env.seconds[i][2])

\* C23: a calibration with a trial whose stop count is below its start
\* count fails the 'rdtsc delta is negative' assertion; the trial does not
\* become a sample of a calibration that completes.
C23_NegativeDeltaAsserts ==
    \A i \in 1..Len(tcalls) :
        (tcalls[i].ran /\ Backwards(tcalls[i].env)) => tcalls[i].setAborted

(***************************************************************************)
(* Two threads calling TimerGetHz                                          *)
(***************************************************************************)
\* a failed assertion in one thread has ended the process
RaceAborted == \E t \in Threads : thr[t].pc = "aborted"

\* the test at the top of TimerSetHz
SetHzCheck(t) ==
    /\ ~RaceAborted
    /\ thr[t].pc = "call"
    /\ thr' = [thr EXCEPT ![t].pc = IF SetHzReturnsEarly(tsc_hz)
                                    THEN "return" ELSE "measure",
                          ![t].passed = ~SetHzReturnsEarly(tsc_hz)]
    /\ UNCHANGED <<gen, hist, rdlog, tsc_hz, tcalls, stats>>

\* the two measuring loops and the medians, on the thread's own arrays;
\* the thread saw tsc_hz = INIT_HZ when it entered
SetHzMeasureDone(t, set) ==
    /\ thr' = [thr EXCEPT ![t].pc = IF set.aborted THEN "aborted" ELSE "store",
                          ![t].val = set.tsc_hz]
    /\ UNCHANGED <<gen, hist, rdlog, tsc_hz, tcalls, stats>>

SetHzMeasure(t, m) ==
    /\ ~RaceAborted
    /\ thr[t].pc = "measure"
    /\ \E env \in m.envs : SetHzMeasureDone(t, TimerSetHz(INIT_HZ, env))

\* the assignment to tsc_hz at the end of TimerSetHz
SetHzStored(t, st) ==
    /\ tsc_hz' = st.tsc_hz
    /\ thr' = [thr EXCEPT ![t].pc = "return", ![t].wrote = st.wrote]
    /\ UNCHANGED <<gen, hist, rdlog, tcalls, stats>>

SetHzStoreStep(t) ==
    /\ ~RaceAborted
    /\ thr[t].pc = "store"
    /\ SetHzStored(t, SetHzStore(tsc_hz, thr[t].val))

\* return tsc_hz in TimerGetHz
GetHzReturn(t) ==
    /\ ~RaceAborted
    /\ thr[t].pc = "return"
    /\ thr' = [thr EXCEPT ![t].pc = "done", ![t].got = tsc_hz]
    /\ UNCHANGED <<gen, hist, rdlog, tsc_hz, tcalls, stats>>

NextRace ==
    \E t \in Threads :
        \/ SetHzCheck(t)
        \/ SetHzMeasure(t, TimerMenu)
        \/ SetHzStoreStep(t)
        \/ GetHzReturn(t)

\* two threads, any interleaving
SpecRace == Init /\ [][NextRace]_vars

\* the threads that have left TimerSetHz
Left(t) == thr[t].pc \in {"return", "done"}

\* C24: nothing between the test of tsc_hz and the assignment to it looks
\* at the cache again, so every thread that found the cache uninitialized
\* and finished its calibration has written tsc_hz, whatever another thread
\* wrote in the meantime; a thread that is still measuring or about to
\* store found the cache uninitialized, and a thread that did not has not
\* written.  With two threads the cache can be written twice.
C24_EveryPassingThreadWrites ==
    \A t \in Threads :
        /\ Left(t) => (thr[t].wrote <=> thr[t].passed)
        /\ thr[t].pc \in {"measure", "store", "aborted"} => thr[t].passed
        /\ thr[t].wrote => tsc_hz \in {thr[u].val : u \in {v \in Threads : thr[v].wrote}}
        /\ thr[t].pc = "done" => thr[t].got \in {thr[u].val : u \in {v \in Threads : thr[v].wrote}}

\* both threads passed the test, both calibrated, both wrote; the second
\* write replaced a different estimate, and the first thread returned a
\* frequency that is not the one it measured
C24_Witness ==
    /\ \A t \in Threads : thr[t].pc = "done" /\ thr[t].passed /\ thr[t].wrote
    /\ thr[1].val # thr[2].val
    /\ thr[1].got # thr[1].val

(***************************************************************************)
(* Biased bits, continued                                                  *)
(***************************************************************************)
\* the accumulator after the draws j .. total - 1 of one output word have
\* been combined bit by bit: AND where bit j + offset of the bitcode is 0,
\* OR where it is 1
RECURSIVE PerBit(_, _, _, _, _, _)
PerBit(bitcode, offset, buffer, accumulator, j, total) ==
    IF j < total
    THEN PerBit(bitcode, offset, buffer,
                IF Bit(bitcode, j + offset) = 0
                THEN And(accumulator, buffer[j + 1])
                ELSE Or(accumulator, buffer[j + 1]),
                j + 1, total)
    ELSE accumulator

\* the accumulator when the draws of output word k begin
AccumulatorAt(c, k) == IF k = 1 THEN Zero ELSE c.dest[k - 1]

BitcodeOf(c) == BiasBitcode(c.args.p, c.args.exp)

OffsetOf(c) == CtzFrom(BitcodeOf(c), 1)

\* C25: every word written by a valid bias call is the accumulator after
\* each of its draws j was ANDed in where bit j + offset of the bitcode is
\* 0 and ORed in where that bit is 1.
C25_BiasCombinesPerBit ==
    \A h \in Handles : \A i \in CallsOf(h, "bias") :
        ~BadBias(hist[h][i]) =>
            \A k \in 1..Len(hist[h][i].dest) :
                hist[h][i].dest[k]
                    = PerBit(BitcodeOf(hist[h][i]), OffsetOf(hist[h][i]),
                             hist[h][i].raws[k], AccumulatorAt(hist[h][i], k),
                             0, hist[h][i].args.exp - OffsetOf(hist[h][i]))

\* exponent - trailing_zeros(bitcode)
TotalOf(c) == c.args.exp - OffsetOf(c)

\* C26: a valid bias call draws total = exp - ctz(bitcode) words for each
\* of its n output words, and output word k is what a call with count 1
\* makes of the k-th group of draws alone, its accumulator starting at 0.
C26_BiasWordsIndependent ==
    \A h \in Handles : \A i \in CallsOf(h, "bias") :
        ~BadBias(hist[h][i]) =>
            /\ Len(hist[h][i].dest) = hist[h][i].n
            /\ Len(hist[h][i].raws) = hist[h][i].n
            /\ \A k \in 1..Len(hist[h][i].dest) :
                  /\ Len(hist[h][i].raws[k]) = TotalOf(hist[h][i])
                  /\ hist[h][i].dest[k]
                        = BiasCombine(BitcodeOf(hist[h][i]), OffsetOf(hist[h][i]),
                                      hist[h][i].raws[k], Zero, 0,
                                      TotalOf(hist[h][i]))

(***************************************************************************)
(* Bounded integers, continued                                             *)
(***************************************************************************)
\* a rejection loop that no draw can end: the ceiling is 0, the mask keeps
\* every bit and the generator is an xorshift with a non-zero state, whose
\* outputs are never 0
NeverAccepts(h, c) ==
    /\ gen[h].methods = "XSH64"
    /\ c.pre.state # Zero
    /\ CeilOf(c) = Zero
    /\ MaskOf(c) = Ones

\* C27: every rand call with min <= max returns SPK_ERROR_SUCCESS with n
\* values, all equal to min when min = max.  A call whose loop was followed
\* for MaxSpin draws without an accepted one is held against the statement
\* only where no later draw can be accepted either.
C27_RandTerminates ==
    \A h \in Handles : \A i \in CallsOf(h, "rand") :
        Leq(hist[h][i].args.min, hist[h][i].args.max) =>
            IF hist[h][i].returned
            THEN /\ hist[h][i].err = SPK_ERROR_SUCCESS
                 /\ Len(hist[h][i].dest) = hist[h][i].n
                 /\ hist[h][i].args.min = hist[h][i].args.max =>
                       \A k \in 1..Len(hist[h][i].dest) :
                           hist[h][i].dest[k] = hist[h][i].args.min
            ELSE ~NeverAccepts(h, hist[h][i])

(***************************************************************************)
(* The xorshift state                                                      *)
(***************************************************************************)
\* every raw word the call drew
RawWords(c) ==
    UNION {{c.raws[k][d] : d \in 1..Len(c.raws[k])} : k \in 1..Len(c.raws)}

\* the calls that drew at least one word
Drawing(h) == {i \in 1..Len(hist[h]) : hist[h][i].raws # <<>> /\ hist[h][i].raws[1] # <<>>}

\* C29: a call on an xorshift generator whose state is not 0 leaves a state
\* that is not 0 and draws no raw word equal to 0, whichever of next, rand,
\* bias and unid it is; a call on the state 0 leaves the state 0 and draws
\* only zeros.
C29_XorshiftKeepsNonZero ==
    \A h \in Handles : gen[h].methods = "XSH64" =>
        \A i \in 1..Len(hist[h]) :
            /\ (hist[h][i].pre.state = Zero) <=> (hist[h][i].post.state = Zero)
            /\ hist[h][i].pre.state # Zero => Zero \notin RawWords(hist[h][i])
            /\ hist[h][i].pre.state = Zero => RawWords(hist[h][i]) \subseteq {Zero}

\* an xorshift generator drew only zeros from the state 0
C29_ZeroStays ==
    \E h \in Handles :
        /\ gen[h].methods = "XSH64"
        /\ Drawing(h) # {}
        /\ hist[h][1].pre.state = Zero

\* two different calls in a row on a generator that started from a non-zero
\* state, both drawing words
C29_Witness ==
    \E h \in Handles :
        /\ gen[h].methods = "XSH64"
        /\ Len(hist[h]) = 2
        /\ Drawing(h) = {1, 2}
        /\ hist[h][1].pre.state # Zero
        /\ hist[h][1].op # hist[h][2].op

(***************************************************************************)
(* Construction, continued                                                 *)
(***************************************************************************)
\* C30: a create that returned SPK_ERROR_RDRAND has left no object
\* allocated, and the caller's handle does not point at an object whose
\* methods were never hooked.
C30_FailedSeedingLeavesNothing ==
    \A h \in Handles :
        (gen[h].err = SPK_ERROR_RDRAND /\ ~gen[h].deleted) =>
            /\ gen[h].ptr # "obj"
            /\ gen[h].methods # "unhooked"

(***************************************************************************)
(* The calibration, continued                                              *)
(***************************************************************************)
\* the calls whose calibration ran to its end
CalibratingCalls == {i \in 1..Len(tcalls) : tcalls[i].ran /\ ~tcalls[i].setAborted}

\* the raw cycle deltas of the one-second trials of call i
SecondDeltas(i) == Deltas(tcalls[i].env.seconds)

\* the one-second deltas less the overhead, in unsigned arithmetic
LessOverhead(i, overhead) ==
    [j \in 1..Len(SecondDeltas(i)) |-> Sub(SecondDeltas(i)[j], overhead)]

\* the estimate of call i is the element at index MAX_TICKS_ITER/2 of the
\* sorted differences, for the overhead at index MAX_NANOSLEEP_ITER/2 of the
\* sorted short deltas
MediansOfCall(i) ==
    \E k \in 1..Len(tcalls[i].env.nanos) :
        /\ AtPlace(Deltas(tcalls[i].env.nanos),
                   TimerElapsedCycles(tcalls[i].env.nanos[k]),
                   (MAX_NANOSLEEP_ITER \div 2) + 1)
        /\ AtPlace(LessOverhead(i, TimerElapsedCycles(tcalls[i].env.nanos[k])),
                   tcalls[i].hz, (MAX_TICKS_ITER \div 2) + 1)

\* the estimated frequency is the median of the differences
CalibrationMedians == \A i \in CalibratingCalls : MediansOfCall(i)

\* C28: a calibration that completes caches the median of the ten
\* one-second deltas less the median of the hundred short deltas, and the
\* cached frequency is not above the largest raw one-second delta.
C28_FrequencyWithinRawDeltas ==
    \A i \in CalibratingCalls :
        /\ MediansOfCall(i)
        /\ \E j \in 1..Len(SecondDeltas(i)) : Leq(tcalls[i].hz, SecondDeltas(i)[j])
====
